---- MODULE Spec2Model ----
(***************************************************************************)
(* A model of cf-ddns.py (CloudFlare Dynamic DNS updater).                 *)
(*                                                                         *)
(* One invocation of the script is a "run": the __main__ block derives the *)
(* domain from --name, constructs a Cloudflare object (credentials, zone   *)
(* lookup), resolves the external addresses from the echo services and     *)
(* calls set_record for each of them.  The provider (zones and DNS         *)
(* records) and the echo services are the environment: every response      *)
(* they can give is a nondeterministic choice.                             *)
(*                                                                         *)
(* Texts (hostnames, response bodies, addresses) are sequences of tokens,  *)
(* so that split/join/strip are computed and not assumed.  Only the        *)
(* error- and info-level log calls are kept in log; debug calls change     *)
(* nothing else and are left out.                                          *)
(***************************************************************************)
EXTENDS Naturals, Sequences, FiniteSets

VARIABLES
    name,       \* args.name, a sequence of characters
    env,        \* os.environ: CF_EMAIL and CF_TOKEN
    proxy,      \* args.proxy
    services,   \* args.ip_services
    records,    \* provider side: the DNS records, in the order it lists them
    pc,         \* position of the run
    domain,     \* domain computed by __main__
    zone_id,    \* self.zone_id
    svc,        \* index of the next service in get_external_ips
    ips,        \* the set built by get_external_ips
    pending,    \* addresses the for loop of __main__ has not yet visited
    calls,      \* one entry per set_record call of the run
    reqs,       \* provider API requests sent in the run, in order
    fetched,    \* per echo service queried in the run: what happened
    okBodies,   \* stripped non-empty bodies of the services that answered 2xx
    log,        \* error and info log calls of the run
    exc,        \* the exception that ended the run, or NoExc
    runNo,      \* number of the current run
    prev,       \* summary of the previous run
    dirty,      \* somebody else changed the provider since the run started
    extCount,   \* number of changes made by somebody else
    inv         \* two invocations of the script at the same time: each one's
                \* position, set_record call and requests

vars == <<name, env, proxy, services, records, pc, domain, zone_id, svc, ips,
          pending, calls, reqs, fetched, okBodies, log, exc, runNo, prev,
          dirty, extCount, inv>>

(***************************************************************************)
(* Bounds.                                                                 *)
(***************************************************************************)
MaxRuns == 2
MaxExternal == 1

(***************************************************************************)
(* Tokens and texts.                                                       *)
(***************************************************************************)
WS == "\n"
NUL == "NUL"
DOT == "."

V4a == <<"203.0.113.7">>
V4b == <<"198.51.100.2">>
V6a == <<"2001:db8::1">>
ExtContent == <<"192.0.2.99">>

IPv4Literals == {"203.0.113.7", "198.51.100.2", "192.0.2.99"}
IPv6Literals == {"2001:db8::1"}

HostHome == <<"h", ".", "e", ".", "c">>
HostCoUk == <<"s", ".", "e", ".", "c", ".", "u">>
HostNoDot == <<"l", "h">>
HostOther == <<"o", ".", "e", ".", "c">>
HostTwo == <<"x", ".", "y">>
Hostnames == {HostHome, HostCoUk, HostNoDot, HostTwo}

\* --ip-services: its default, or a list given on the command line
DefaultServices == <<"https://api.ipify.org", "https://icanhazip.com">>
ServiceLists == {DefaultServices, <<"https://ifconfig.me">>}

\* os.getenv gives None for an unset variable, else its (possibly empty) value
Unset == [set |-> FALSE, value |-> <<>>]
EnvValues == {Unset, [set |-> TRUE, value |-> <<>>], [set |-> TRUE, value |-> <<"v">>]}

NoExc == "None"
NoZone == "None"

(***************************************************************************)
(* str.strip(), str.split('.') and '.'.join().                             *)
(***************************************************************************)
RECURSIVE LStrip(_)
LStrip(t) == IF t # <<>> /\ Head(t) = WS THEN LStrip(Tail(t)) ELSE t

RECURSIVE RStrip(_)
RStrip(t) == IF t # <<>> /\ t[Len(t)] = WS
             THEN RStrip(SubSeq(t, 1, Len(t) - 1)) ELSE t

Strip(t) == RStrip(LStrip(t))

HasDot(t) == \E i \in DOMAIN t : t[i] = DOT

RECURSIVE SplitAcc(_, _, _)
SplitAcc(t, cur, acc) ==
    IF t = <<>> THEN Append(acc, cur)
    ELSE IF Head(t) = DOT THEN SplitAcc(Tail(t), <<>>, Append(acc, cur))
    ELSE SplitAcc(Tail(t), Append(cur, Head(t)), acc)

Split(t) == SplitAcc(t, <<>>, <<>>)

RECURSIVE Join(_)
Join(parts) ==
    IF parts = <<>> THEN <<>>
    ELSE IF Len(parts) = 1 THEN parts[1]
    ELSE parts[1] \o <<DOT>> \o Join(Tail(parts))

\* a variant that keeps the first two labels
LastTwo_FirstTwo(parts) ==
    IF Len(parts) <= 2 THEN parts ELSE SubSeq(parts, 1, 2)

LastTwo(parts) ==
    IF Len(parts) <= 2 THEN parts ELSE SubSeq(parts, Len(parts) - 1, Len(parts))

DomainOf(n) == Join(LastTwo(Split(n)))

(***************************************************************************)
(* Address classification.                                                 *)
(***************************************************************************)
HasNul(ip) == \E i \in DOMAIN ip : ip[i] = NUL

inet_pton(af, ip) ==
    IF HasNul(ip) THEN "ValueError"
    ELSE IF Len(ip) = 1
            /\ ip[1] \in (IF af = "AF_INET" THEN IPv4Literals ELSE IPv6Literals)
    THEN "packed"
    ELSE "socket.error"

is_ipv4(ip) ==
    LET r == inet_pton("AF_INET", ip)
    IN  IF r = "socket.error" THEN "False"
        ELSE IF r = "packed" THEN "True" ELSE r

is_ipv6(ip) ==
    LET r == inet_pton("AF_INET6", ip)
    IN  IF r = "socket.error" THEN "False"
        ELSE IF r = "packed" THEN "True" ELSE r

\* a variant that returns the record types the wrong way round
get_record_type_Swapped(ip) ==
    LET r4 == is_ipv4(ip)
    IN  IF r4 = "ValueError" THEN "ValueError"
        ELSE IF r4 = "True" THEN "AAAA"
        ELSE LET r6 == is_ipv6(ip)
             IN  IF r6 = "ValueError" THEN "ValueError"
                 ELSE IF r6 = "True" THEN "A"
                 ELSE "None"

get_record_type(ip) ==
    LET r4 == is_ipv4(ip)
    IN  IF r4 = "ValueError" THEN "ValueError"
        ELSE IF r4 = "True" THEN "A"
        ELSE LET r6 == is_ipv6(ip)
             IN  IF r6 = "ValueError" THEN "ValueError"
                 ELSE IF r6 = "True" THEN "AAAA"
                 ELSE "None"

(***************************************************************************)
(* The provider.                                                           *)
(***************************************************************************)
ProviderZones == <<[id |-> "z1", name |-> <<"e", ".", "c">>]>>

Rec(i, n, t, c, p) == [id |-> i, name |-> n, type |-> t, content |-> c, proxied |-> p]

InitialRecords ==
    { <<>>,
      <<Rec(1, HostHome, "A", V4a, FALSE)>>,
      <<Rec(1, HostHome, "A", V4b, TRUE), Rec(2, HostHome, "A", V4a, TRUE)>>,
      <<Rec(1, HostOther, "A", V4a, FALSE), Rec(2, HostHome, "AAAA", V6a, TRUE)>> }

\* what the provider lists for GET /zones?name=n
ZonesNamed(n) == SelectSeq(ProviderZones, LAMBDA z : z.name = n)

\* what the provider lists for GET /zones/<id>/dns_records?name=n&type=t
RecordsNamed(n, t) == SelectSeq(records, LAMBDA r : r.name = n /\ r.type = t)

\* the JSON bodies of a successful list request whose matches are m:
\* the list itself, or for no match an empty list, a null or no result field
Envelopes(m) ==
    IF m # <<>> THEN {"list"} ELSE {"empty", "null", "missing"}

\* a response is the status class and, when ok, the JSON body
ListResponses(m) ==
    {[ok |-> FALSE, kind |-> "fail", result |-> <<>>]}
    \cup {[ok |-> TRUE, kind |-> k, result |-> m] : k \in Envelopes(m)}

WriteResponses == {TRUE, FALSE}

NextId == Len(records) + 1

\* the provider applies a successful POST
Created(data) == Append(records, Rec(NextId, data.name, data.type, data.content, data.proxied))

\* the provider applies a successful PUT addressed to record id
Updated(id, data) ==
    [i \in DOMAIN records |->
        IF records[i].id = id
        THEN Rec(id, data.name, data.type, data.content, data.proxied)
        ELSE records[i]]

(***************************************************************************)
(* The echo services: an exception, or a response with a status and text.  *)
(***************************************************************************)
FetchOutcomes ==
    { [raised |-> TRUE,  ok |-> FALSE, text |-> <<>>],
      [raised |-> FALSE, ok |-> TRUE,  text |-> <<"203.0.113.7", WS>>],
      [raised |-> FALSE, ok |-> TRUE,  text |-> <<WS, "198.51.100.2">>],
      [raised |-> FALSE, ok |-> TRUE,  text |-> <<"2001:db8::1", WS>>],
      [raised |-> FALSE, ok |-> TRUE,  text |-> <<WS, WS>>],
      [raised |-> FALSE, ok |-> TRUE,  text |-> <<"not-an-ip">>],
      [raised |-> FALSE, ok |-> TRUE,  text |-> <<"203.0.113.7", NUL>>],
      [raised |-> FALSE, ok |-> FALSE, text |-> <<"not-an-ip", WS>>] }

(***************************************************************************)
(* Requests, log entries and call records.                                 *)
(***************************************************************************)
\* optional values are sets with at most one element
Req(call, method, zone, rec_id, params, data, resp) ==
    [call |-> call, method |-> method, zone |-> zone, rec_id |-> rec_id,
     params |-> params, data |-> data, resp |-> resp]

LogEntry(level, msg, arg) == [level |-> level, msg |-> msg, arg |-> arg]

\* listed: the records the lookup of the call returned, in their order
Call(value, rt, looked, listed, found, outcome) ==
    [value |-> value, rt |-> rt, looked |-> looked, listed |-> listed,
     found |-> found, outcome |-> outcome]

\* the invocations of the script that run at the same time
Invocations == {1, 2}

\* an invocation: its position, its set_record call and its requests
Invocation(at, c, rq) == [pc |-> at, calls |-> c, reqs |-> rq]

NotStarted == Invocation("none", <<>>, <<>>)

NoPrev == [valid |-> FALSE, ips |-> {}, proxy |-> FALSE]

(***************************************************************************)
(* Decisions of the code.                                                  *)
(***************************************************************************)
\* __main__: '.' in args.name
ValidHostname(n) == HasDot(n)

\* a variant that only notices an unset variable, not an empty one
CredsMissing_OnlyUnset(e) == ~e.email.set \/ ~e.token.set

\* __init__: not email or not token
CredsMissing(e) ==
    \/ ~e.email.set \/ e.email.value = <<>>
    \/ ~e.token.set \/ e.token.value = <<>>

\* a variant that returns to the caller whatever the status
call_api_raises_Never(r) == FALSE

\* _call_api: r.ok, else log and raise_for_status()
call_api_raises(r) == ~r.ok

\* 'result' in d and d['result']
HasResult(r) == r.kind \notin {"missing", "null"} /\ r.result # <<>>

\* a variant that returns None instead of raising, as _get_existing_rec does
get_zone_id_result_ReturnsNone(r) ==
    IF HasResult(r)
    THEN [raises |-> FALSE, id |-> r.result[1].id]
    ELSE [raises |-> FALSE, id |-> NoZone]

\* _get_zone_id: the id of the first zone, or raise ValueError
get_zone_id_result(r) ==
    IF HasResult(r)
    THEN [raises |-> FALSE, id |-> r.result[1].id]
    ELSE [raises |-> TRUE, id |-> NoZone]

\* a variant without the try/except: the exception leaves get_external_ips
except_Exception_Uncaught(s) ==
    [pc |-> "aborted", exc |-> "RequestException", log |-> <<>>]

\* get_external_ips: except Exception as err: log the error and go on
except_Exception(s) ==
    [pc |-> "get_external_ips", exc |-> NoExc,
     log |-> <<LogEntry("error", "fetch failed", <<s>>)>>]

\* a variant that asks for the records of the name, of any type
get_existing_rec_params_NoType(n, rt) == [name |-> n, type |-> ""]

\* _get_existing_rec: params = {'name': name, 'type': rec_type}
get_existing_rec_params(n, rt) == [name |-> n, type |-> rt]

\* a variant that takes the last record listed
get_existing_rec_Last(r) == IF HasResult(r) THEN {r.result[Len(r.result)]} ELSE {}

\* a variant that never finds a record
get_existing_rec_NeverFound(r) == {}

\* _get_existing_rec: the first record or None
get_existing_rec(r) == IF HasResult(r) THEN {r.result[1]} ELSE {}

\* a variant that does not compare the proxied flag
RecUnchanged_ContentOnly(rec, value, p) == rec.content = value

\* a variant that compares the wrong field of the record with the address
RecUnchanged_WrongField(rec, value, p) == rec.name = value /\ rec.proxied = p

\* set_record: rec['content'] == value and rec['proxied'] == proxy
RecUnchanged(rec, value, p) == rec.content = value /\ rec.proxied = p

\* a variant that forgets data['id'] = rec_id
WriteData_WithoutId(n, rt, value, p, found) ==
    [name |-> n, type |-> rt, content |-> value, proxied |-> p, id |-> {}]

\* a variant that does not pass the proxy flag on
WriteData_NotProxied(n, rt, value, p, found) ==
    [name |-> n, type |-> rt, content |-> value, proxied |-> FALSE,
     id |-> {r.id : r \in found}]

\* set_record: the JSON sent with a write
WriteData(n, rt, value, p, found) ==
    [name |-> n, type |-> rt, content |-> value, proxied |-> p,
     id |-> {r.id : r \in found}]

\* set_record: the path of a write, req_path or req_path + '/' + rec_id
WritePathId(found) == {r.id : r \in found}

\* a variant that always creates
WriteMethod_AlwaysPost(found) == "POST"

\* set_record: PUT if rec else POST
WriteMethod(found) == IF found # {} THEN "PUT" ELSE "POST"

(***************************************************************************)
(* Initial state: the command line, the environment and the provider.      *)
(***************************************************************************)
Init ==
    /\ name \in Hostnames
    /\ env \in [email : EnvValues, token : EnvValues]
    /\ proxy \in BOOLEAN
    /\ services \in ServiceLists
    /\ records \in InitialRecords
    /\ pc = "main"
    /\ domain = <<>>
    /\ zone_id = NoZone
    /\ svc = 1
    /\ ips = {}
    /\ pending = {}
    /\ calls = <<>>
    /\ reqs = <<>>
    /\ fetched = <<>>
    /\ okBodies = {}
    /\ log = <<>>
    /\ exc = NoExc
    /\ runNo = 1
    /\ prev = NoPrev
    /\ dirty = FALSE
    /\ extCount = 0
    /\ inv = [p \in Invocations |-> NotStarted]

provider == <<records>>
config == <<name, env, proxy, services>>
history == <<runNo, prev, dirty, extCount>>

(***************************************************************************)
(* __main__: the hostname check and the domain.                            *)
(***************************************************************************)
main ==
    /\ pc = "main"
    /\ IF ValidHostname(name)
       THEN /\ domain' = DomainOf(name)
            /\ pc' = "init"
            /\ exc' = exc
       ELSE /\ domain' = domain
            /\ pc' = "aborted"
            /\ exc' = "ValueError: not a valid hostname"
    /\ UNCHANGED <<inv, config, provider, history, zone_id, svc, ips, pending,
                   calls, reqs, fetched, okBodies, log>>

(***************************************************************************)
(* Cloudflare.__init__ up to the call of _get_zone_id: the credentials.    *)
(***************************************************************************)
Cloudflare_init ==
    /\ pc = "init"
    /\ IF CredsMissing(env)
       THEN /\ pc' = "aborted"
            /\ exc' = "EnvironmentError"
       ELSE /\ pc' = "get_zone_id"
            /\ exc' = exc
    /\ UNCHANGED <<inv, config, provider, history, domain, zone_id, svc, ips,
                   pending, calls, reqs, fetched, okBodies, log>>

(***************************************************************************)
(* _get_zone_id(name) and the assignment to self.zone_id.                  *)
(***************************************************************************)
get_zone_id ==
    /\ pc = "get_zone_id"
    /\ \E r \in ListResponses(ZonesNamed(domain)) :
         /\ reqs' = Append(reqs, Req(0, "GET", {}, {},
                               {[name |-> domain, type |-> ""]}, {}, r.kind))
         /\ IF call_api_raises(r)
            THEN /\ log' = Append(log, LogEntry("error", "Request failed", <<"r.text">>))
                 /\ pc' = "aborted"
                 /\ exc' = "HTTPError"
                 /\ zone_id' = zone_id
            ELSE LET z == get_zone_id_result(r)
                 IN  IF z.raises
                     THEN /\ log' = log
                          /\ pc' = "aborted"
                          /\ exc' = "ValueError: No such domain"
                          /\ zone_id' = zone_id
                     ELSE /\ log' = log
                          /\ pc' = "get_external_ips"
                          /\ exc' = exc
                          /\ zone_id' = z.id
    /\ UNCHANGED <<inv, config, provider, history, domain, svc, ips, pending,
                   calls, fetched, okBodies>>

(***************************************************************************)
(* get_external_ips: one iteration of the loop over the services.          *)
(***************************************************************************)
get_external_ip ==
    /\ pc = "get_external_ips"
    /\ svc <= Len(services)
    /\ \E o \in FetchOutcomes :
         IF o.raised
         THEN LET h == except_Exception(services[svc])
              IN  /\ log' = log \o h.log
                  /\ pc' = h.pc
                  /\ exc' = h.exc
                  /\ fetched' = Append(fetched, "raised")
                  /\ UNCHANGED <<ips, okBodies>>
         ELSE LET ip == Strip(o.text)
              IN  /\ ips' = IF ip # <<>> THEN ips \cup {ip} ELSE ips
                  /\ okBodies' = IF o.ok /\ ip # <<>>
                                 THEN okBodies \cup {ip} ELSE okBodies
                  /\ fetched' = Append(fetched, IF o.ok THEN "ok" ELSE "non2xx")
                  /\ UNCHANGED <<log, pc, exc>>
    /\ svc' = svc + 1
    /\ UNCHANGED <<inv, config, provider, history, domain, zone_id, pending,
                   calls, reqs>>

(***************************************************************************)
(* get_external_ips returns; __main__ starts to iterate over the set.      *)
(***************************************************************************)
get_external_ips_return ==
    /\ pc = "get_external_ips"
    /\ svc > Len(services)
    /\ pending' = ips
    /\ pc' = "loop"
    /\ UNCHANGED <<inv, config, provider, history, domain, zone_id, svc, ips,
                   calls, reqs, fetched, okBodies, log, exc>>

(***************************************************************************)
(* One iteration of the for loop of __main__: set_record(name, ip, proxy)  *)
(* from its start to the answer of _get_existing_rec.  The set is iterated *)
(* in an order the program does not control.                               *)
(***************************************************************************)
set_record_lookup ==
    /\ pc = "loop"
    /\ \E value \in pending :
         LET rt == get_record_type(value)
             k  == Len(calls) + 1
         IN  /\ pending' = pending \ {value}
             /\ IF rt = "ValueError"
                THEN /\ calls' = Append(calls, Call(value, rt, FALSE, <<>>, {}, "Raised"))
                     /\ pc' = "aborted"
                     /\ exc' = "ValueError: embedded null character"
                     /\ UNCHANGED <<reqs, log>>
                ELSE IF rt = "None"
                THEN /\ calls' = Append(calls, Call(value, rt, FALSE, <<>>, {}, "Rejected"))
                     /\ log' = Append(log, LogEntry("error",
                                         "Getting record type failed", value))
                     /\ UNCHANGED <<pc, exc, reqs>>
                ELSE \E r \in ListResponses(
                             RecordsNamed(get_existing_rec_params(name, rt).name,
                                          get_existing_rec_params(name, rt).type)) :
                     /\ reqs' = Append(reqs, Req(k, "GET", {zone_id}, {},
                                           {get_existing_rec_params(name, rt)}, {},
                                           r.kind))
                     /\ IF call_api_raises(r)
                        THEN /\ calls' = Append(calls, Call(value, rt, FALSE, <<>>, {}, "Raised"))
                             /\ log' = Append(log, LogEntry("error", "Request failed",
                                                             <<"r.text">>))
                             /\ pc' = "aborted"
                             /\ exc' = "HTTPError"
                        ELSE LET found == get_existing_rec(r)
                             IN  IF \E rec \in found : RecUnchanged(rec, value, proxy)
                                 THEN /\ calls' = Append(calls,
                                                     Call(value, rt, TRUE, r.result, found, "NoOp"))
                                      /\ UNCHANGED <<pc, exc, log>>
                                 ELSE /\ calls' = Append(calls,
                                                     Call(value, rt, TRUE, r.result, found, "pending"))
                                      /\ pc' = "write"
                                      /\ UNCHANGED <<exc, log>>
    /\ UNCHANGED <<inv, config, provider, history, domain, zone_id, svc, ips,
                   fetched, okBodies>>

(***************************************************************************)
(* set_record, after the lookup: the PUT or POST and its answer.           *)
(***************************************************************************)
set_record_write ==
    /\ pc = "write"
    /\ LET k      == Len(calls)
           c      == calls[k]
           method == WriteMethod(c.found)
           data   == WriteData(name, c.rt, c.value, proxy, c.found)
           path   == WritePathId(c.found)
       IN  \E ok \in WriteResponses :
             LET r == [ok |-> ok]
             IN
             /\ reqs' = Append(reqs, Req(k, method, {zone_id}, path, {}, {data},
                                   IF ok THEN "ok" ELSE "fail"))
             /\ IF call_api_raises(r)
                THEN /\ calls' = [calls EXCEPT ![k].outcome = "Raised"]
                     /\ log' = log \o <<LogEntry("info",
                                  IF method = "PUT" THEN "Updating record"
                                                    ELSE "Adding new record", c.value),
                                  LogEntry("error", "Request failed", <<"r.text">>)>>
                     /\ pc' = "aborted"
                     /\ exc' = "HTTPError"
                     /\ records' = records
                ELSE /\ calls' = [calls EXCEPT ![k].outcome =
                                     IF method = "PUT" THEN "Updated" ELSE "Created"]
                     /\ log' = log \o <<LogEntry("info",
                                  IF method = "PUT" THEN "Updating record"
                                                    ELSE "Adding new record", c.value),
                                  LogEntry("info", "Success", c.value)>>
                     /\ pc' = "loop"
                     /\ exc' = exc
                     /\ records' = IF method = "PUT"
                                   THEN Updated(CHOOSE i \in path : TRUE, data)
                                   ELSE Created(data)
    /\ UNCHANGED <<inv, config, history, domain, zone_id, svc, ips, pending,
                   fetched, okBodies>>

(***************************************************************************)
(* The for loop of __main__ is exhausted: the script ends.                 *)
(***************************************************************************)
finish ==
    /\ pc = "loop"
    /\ pending = {}
    /\ pc' = "done"
    /\ UNCHANGED <<inv, config, provider, history, domain, zone_id, svc, ips,
                   pending, calls, reqs, fetched, okBodies, log, exc>>

(***************************************************************************)
(* The scheduler invokes the script again: no state is kept between runs,  *)
(* so a run differs from a first run only by what the provider holds.  The *)
(* model follows by another run a run that completed while nobody else     *)
(* touched the provider; a run started after any other run is a first run  *)
(* from the provider state it finds.                                       *)
(***************************************************************************)
RunEnded == pc \in {"done", "aborted"}

new_run ==
    /\ pc = "done" /\ ~dirty
    /\ runNo < MaxRuns
    /\ runNo' = runNo + 1
    /\ prev' = [valid |-> TRUE, ips |-> ips, proxy |-> proxy]
    /\ dirty' = FALSE
    /\ proxy' \in BOOLEAN
    /\ pc' = "main"
    /\ domain' = <<>>
    /\ zone_id' = NoZone
    /\ svc' = 1
    /\ ips' = {}
    /\ pending' = {}
    /\ calls' = <<>>
    /\ reqs' = <<>>
    /\ fetched' = <<>>
    /\ okBodies' = {}
    /\ log' = <<>>
    /\ exc' = NoExc
    /\ UNCHANGED <<inv, name, env, services, provider, extCount>>

(***************************************************************************)
(* Somebody else edits a record at the provider.  A run reads and writes   *)
(* the records only in set_record, so an edit made earlier in a run is     *)
(* seen by it exactly as one made when its loop starts.                    *)
(***************************************************************************)
external_change ==
    /\ extCount < MaxExternal
    /\ pc \in {"loop", "write", "done", "aborted"}
    /\ \E i \in DOMAIN records :
         /\ records[i].content # ExtContent
         /\ records' = [records EXCEPT ![i].content = ExtContent]
    /\ extCount' = extCount + 1
    /\ dirty' = TRUE
    /\ UNCHANGED <<inv, config, runNo, prev, pc, domain, zone_id, svc, ips, pending,
                   calls, reqs, fetched, okBodies, log, exc>>

Next ==
    \/ main
    \/ Cloudflare_init
    \/ get_zone_id
    \/ get_external_ip
    \/ get_external_ips_return
    \/ set_record_lookup
    \/ set_record_write
    \/ finish
    \/ new_run
    \/ external_change

Spec == Init /\ [][Next]_vars

(***************************************************************************)
(* Vocabulary of the properties.                                           *)
(***************************************************************************)
\* the requests sent by the k-th set_record call of the run
WritesOf(k) == {i \in DOMAIN reqs : reqs[i].call = k /\ reqs[i].method \in {"POST", "PUT"}}
LookupsOf(k) == {i \in DOMAIN reqs : reqs[i].call = k /\ reqs[i].method = "GET"}
AllWrites == {i \in DOMAIN reqs : reqs[i].method \in {"POST", "PUT"}}
ZoneLookups == {i \in DOMAIN reqs : reqs[i].call = 0}

\* strict address syntax, stated without the classifier of the code
ValidIPv4(a) == Len(a) = 1 /\ a[1] \in IPv4Literals
ValidIPv6(a) == Len(a) = 1 /\ a[1] \in IPv6Literals
ValidAddress(a) == ValidIPv4(a) \/ ValidIPv6(a)
FamilyOf(a) == IF ValidIPv4(a) THEN "A" ELSE IF ValidIPv6(a) THEN "AAAA" ELSE "None"

\* get_external_ips has returned in this run
Resolved == pc \in {"loop", "write", "done"} \/ (pc = "aborted" /\ calls # <<>>)

Logged(level, arg) == \E i \in DOMAIN log : log[i].level = level /\ log[i].arg = arg

\* C1: when the lookup of a set_record call returned a record whose content
\* is the candidate address and whose proxied flag is the requested one, the
\* call sends no POST and no PUT and ends as NoOp.
C1_Idempotence ==
    \A k \in DOMAIN calls :
        (calls[k].looked
         /\ \E rec \in calls[k].found :
                rec.content = calls[k].value /\ rec.proxied = proxy)
        => (WritesOf(k) = {} /\ calls[k].outcome = "NoOp")

C1_Witness ==
    \E k \in DOMAIN calls :
        /\ calls[k].outcome = "NoOp"
        /\ \E rec \in calls[k].found :
              rec.content = calls[k].value /\ rec.proxied = proxy
        /\ pc = "done"

\* at most one valid address of each family
OnePerFamily(S) ==
    \A a, b \in S : (ValidAddress(a) /\ ValidAddress(b) /\ FamilyOf(a) = FamilyOf(b)) => a = b

\* the run follows a run that completed without error, resolved the same
\* set with the same proxy flag, and nobody else changed the provider
RepeatedRun ==
    /\ runNo > 1 /\ prev.valid /\ ~dirty
    /\ Resolved
    /\ ips = prev.ips /\ proxy = prev.proxy

\* C2 as stated: whatever the resolved set, a run that repeats a completed
\* run with the same set and proxy flag sends no create and no update.
C2_AnySetNoWrites == RepeatedRun => AllWrites = {}

\* C2 amended: a run that repeats a completed run with the same set and
\* proxy flag sends no create and no update, provided the set holds at
\* most one valid address of each family.
C2_RepeatedRunNoWrites == (RepeatedRun /\ OnePerFamily(ips)) => AllWrites = {}

C2_Witness ==
    /\ RepeatedRun /\ OnePerFamily(ips)
    /\ pc = "done"
    /\ Cardinality({a \in ips : ValidAddress(a)}) = 2
    /\ \A k \in DOMAIN calls : ValidAddress(calls[k].value) => calls[k].outcome = "NoOp"

\* C3: a set_record call whose lookup found no record sends exactly one
\* POST, without a record id in path or body; one whose lookup found a
\* record of different content sends exactly one PUT, addressed to and
\* carrying that record's id and the new content.  Every PUT carries the id
\* of the record found and no POST carries an id.
C3_CreateVsUpdate ==
    /\ \A k \in DOMAIN calls :
         (calls[k].looked /\ calls[k].outcome # "pending") =>
            /\ calls[k].found = {} =>
                  /\ Cardinality(WritesOf(k)) = 1
                  /\ \A i \in WritesOf(k) : reqs[i].method = "POST"
            /\ \A rec \in calls[k].found :
                  rec.content # calls[k].value =>
                     /\ Cardinality(WritesOf(k)) = 1
                     /\ \A i \in WritesOf(k) :
                           /\ reqs[i].method = "PUT"
                           /\ reqs[i].rec_id = {rec.id}
                           /\ \A d \in reqs[i].data :
                                 d.id = {rec.id} /\ d.content = calls[k].value
    /\ \A i \in AllWrites :
         /\ reqs[i].data # {}
         /\ reqs[i].method = "POST" =>
               reqs[i].rec_id = {} /\ \A d \in reqs[i].data : d.id = {}
         /\ reqs[i].method = "PUT" =>
               /\ calls[reqs[i].call].found # {}
               /\ \A rec \in calls[reqs[i].call].found :
                     reqs[i].rec_id = {rec.id} /\ \A d \in reqs[i].data : d.id = {rec.id}

C3_Witness ==
    /\ \E k \in DOMAIN calls : calls[k].outcome = "Created" /\ calls[k].found = {}
    /\ \E k \in DOMAIN calls :
          /\ calls[k].outcome = "Updated"
          /\ \E rec \in calls[k].found : rec.content # calls[k].value

\* C4: when a provider call made while reconciling one address fails, every
\* address of the resolved set is still passed to set_record before the run
\* ends.
C4_FailureIsolation ==
    (RunEnded /\ \E i \in DOMAIN reqs : reqs[i].call > 0 /\ reqs[i].resp = "fail")
    => \A a \in ips : \E k \in DOMAIN calls : calls[k].value = a

\* C5: an echo service that raises is logged and does not stop the
\* resolution: every service is queried before get_external_ips is left and
\* no exception leaves it; when all of them raise, the set is empty, no
\* set_record call and no provider request follows the zone lookup, and the
\* run ends without an exception.
AllServicesFailed ==
    /\ Len(fetched) = Len(services)
    /\ \A i \in DOMAIN fetched : fetched[i] = "raised"

C5_ResolverFaultIsolation ==
    /\ \A i \in DOMAIN fetched :
          fetched[i] = "raised" => Logged("error", <<services[i]>>)
    /\ fetched # <<>> =>
          \/ pc = "get_external_ips" /\ exc = NoExc
          \/ Len(fetched) = Len(services)
    /\ (pc = "aborted" /\ fetched # <<>>) => calls # <<>>
    /\ AllServicesFailed =>
          /\ ips = {} /\ pending = {} /\ calls = <<>>
          /\ Len(reqs) = 1
          /\ exc = NoExc
          /\ pc \in {"get_external_ips", "loop", "done"}

C5_Witness ==
    /\ AllServicesFailed
    /\ Len(services) = 2
    /\ pc = "done"

\* C6: the set get_external_ips returns is exactly the set of stripped,
\* non-empty bodies of the services that answered with a 2xx status.
C6_ResolverResult == Resolved => ips = okBodies

\* C7: a set_record call for an address that is neither valid IPv4 nor
\* valid IPv6 logs an error, sends no provider request, raises nothing, and
\* the loop goes on.
C7_InvalidRejected ==
    \A k \in DOMAIN calls :
        ~ValidAddress(calls[k].value) =>
            /\ calls[k].outcome = "Rejected"
            /\ Logged("error", calls[k].value)
            /\ \A i \in DOMAIN reqs : reqs[i].call # k
            /\ (k = Len(calls) => exc = NoExc)

\* C8: with a hostname without a dot, or with a credential variable unset
\* or empty, the run aborts with an exception and sends no request at all.
BadConfiguration ==
    \/ ~HasDot(name)
    \/ \E v \in {env.email, env.token} : ~v.set \/ v.value = <<>>

C8_ConfigErrorsFirst ==
    BadConfiguration =>
        /\ reqs = <<>> /\ fetched = <<>>
        /\ pc \in {"main", "init", "aborted"}
        /\ pc = "aborted" =>
              exc \in {"ValueError: not a valid hostname", "EnvironmentError"}

C8_Witness ==
    /\ pc = "aborted" /\ exc = "EnvironmentError"
    /\ env.email.set /\ env.email.value # <<>>
    /\ env.token.set /\ env.token.value = <<>>

\* C9: when the zone lookup answers with a non-success status or with a
\* missing, null or empty result, the run aborts: no echo service is
\* queried and no further provider request is sent.
ZoneLookupFailed ==
    reqs # <<>> /\ reqs[1].resp \in {"fail", "missing", "null", "empty"}

C9_ZoneFailureFatal ==
    ZoneLookupFailed =>
        /\ pc = "aborted"
        /\ exc \in {"HTTPError", "ValueError: No such domain"}
        /\ zone_id = NoZone
        /\ fetched = <<>>
        /\ Len(reqs) = 1

C9_Witness ==
    /\ ZoneLookupFailed
    /\ reqs[1].resp = "empty"
    /\ exc = "ValueError: No such domain"

\* C10: a run that got its zone makes exactly one zone lookup, first of
\* all its requests, and every later request is sent to that zone; for each
\* valid address of the resolved set there is exactly one set_record call
\* with exactly one record lookup, which precedes its at most one write.
C10_CallCounts ==
    (RunEnded /\ zone_id # NoZone) =>
        /\ ZoneLookups = {1}
        /\ \A i \in DOMAIN reqs : i > 1 => reqs[i].zone = {zone_id}
        /\ \A a \in ips :
              ValidAddress(a) =>
                 \E k \in DOMAIN calls :
                    /\ calls[k].value = a
                    /\ \A j \in DOMAIN calls : calls[j].value = a => j = k
                    /\ Cardinality(LookupsOf(k)) = 1
                    /\ Cardinality(WritesOf(k)) <= 1
                    /\ \A l \in LookupsOf(k), w \in WritesOf(k) : l < w

\* C11: in every record lookup, POST and PUT of a set_record call the type
\* is A exactly when the candidate is valid IPv4 and AAAA exactly when it is
\* not valid IPv4 but valid IPv6; a write has the type of the lookup of its
\* call, and its content is the candidate address.
C11_TypeMatchesFamily ==
    \A i \in DOMAIN reqs :
        reqs[i].call > 0 =>
            LET c == calls[reqs[i].call]
            IN  /\ FamilyOf(c.value) \in {"A", "AAAA"}
                /\ \A q \in reqs[i].params : q.type = FamilyOf(c.value)
                /\ \A d \in reqs[i].data :
                      /\ d.type = FamilyOf(c.value)
                      /\ d.content = c.value
                      /\ \A l \in LookupsOf(reqs[i].call) :
                            \A q \in reqs[l].params : q.type = d.type
                /\ reqs[i].method = "GET" => reqs[i].params # {}
                /\ reqs[i].method # "GET" => reqs[i].data # {}

C11_Witness ==
    /\ \E i \in AllWrites : \E d \in reqs[i].data : d.type = "A" /\ ValidIPv4(d.content)
    /\ \E i \in AllWrites : \E d \in reqs[i].data : d.type = "AAAA" /\ ValidIPv6(d.content)

\* the text after the last but one dot of n, or n itself if it has one dot
DotsOf(n) == {i \in DOMAIN n : n[i] = DOT}

LastTwoLabels(n) ==
    IF Cardinality(DotsOf(n)) <= 1 THEN n
    ELSE LET last == CHOOSE i \in DotsOf(n) : \A j \in DotsOf(n) : j <= i
             p    == CHOOSE i \in DotsOf(n) \ {last} :
                        \A j \in DotsOf(n) \ {last} : j <= i
         IN  SubSeq(n, p + 1, Len(n))

\* C12: for a hostname with a dot, the zone lookup asks for the last two
\* dot-separated labels of the hostname joined by a dot, whatever they are,
\* while record lookups and writes name the full hostname; a hostname
\* without a dot aborts the run as an invalid hostname.
C12_DomainExtraction ==
    /\ \A i \in ZoneLookups :
          /\ DotsOf(name) # {}
          /\ \A q \in reqs[i].params : q.name = LastTwoLabels(name)
          /\ reqs[i].params # {}
    /\ \A i \in DOMAIN reqs :
          reqs[i].call > 0 =>
             /\ \A q \in reqs[i].params : q.name = name
             /\ \A d \in reqs[i].data : d.name = name
    /\ (DotsOf(name) = {} /\ pc # "main") =>
          /\ pc = "aborted"
          /\ exc = "ValueError: not a valid hostname"
          /\ reqs = <<>>
    /\ (DotsOf(name) # {} /\ pc # "main") => domain = LastTwoLabels(name)

C12_Witness ==
    /\ name = HostCoUk
    /\ \E i \in ZoneLookups : \E q \in reqs[i].params : q.name = <<"c", ".", "u">>

\* C13: when the lookup of a set_record call found a record, the call
\* sends a write if and only if the record's content differs from the
\* candidate or its proxied flag differs from the requested one; with equal
\* content and a different flag it sends one PUT with the requested flag
\* and the whole of name, type, content and proxied.  No call sends more
\* than one write.
C13_WriteDecision ==
    /\ \A k \in DOMAIN calls : Cardinality(WritesOf(k)) <= 1
    /\ \A k \in DOMAIN calls :
         (calls[k].looked /\ calls[k].outcome # "pending") =>
            \A rec \in calls[k].found :
               /\ (WritesOf(k) # {}) <=>
                     (rec.content # calls[k].value \/ rec.proxied # proxy)
               /\ (rec.content = calls[k].value /\ rec.proxied # proxy) =>
                     \A i \in WritesOf(k) :
                        /\ reqs[i].method = "PUT"
                        /\ reqs[i].data =
                              {[name |-> name, type |-> FamilyOf(calls[k].value),
                                content |-> calls[k].value, proxied |-> proxy,
                                id |-> {rec.id}]}

C13_Witness ==
    \E k \in DOMAIN calls :
        /\ calls[k].outcome = "Updated"
        /\ \E rec \in calls[k].found :
              rec.content = calls[k].value /\ rec.proxied # proxy

\* C14: a provider request answered with a non-success status is logged
\* with the response body and raised, and the same call sends no further
\* request: after a failed record lookup the call sends no POST and no PUT,
\* and a failed write is not sent again.
C14_NoRetry ==
    \A i \in DOMAIN reqs :
        reqs[i].resp = "fail" =>
            /\ \E l \in DOMAIN log :
                  log[l] = LogEntry("error", "Request failed", <<"r.text">>)
            /\ exc = "HTTPError"
            /\ \A j \in DOMAIN reqs : (j > i) => reqs[j].call # reqs[i].call
            /\ (reqs[i].call > 0 /\ reqs[i].method = "GET") =>
                  /\ WritesOf(reqs[i].call) = {}
                  /\ calls[reqs[i].call].outcome = "Raised"
            /\ reqs[i].method # "GET" =>
                  /\ WritesOf(reqs[i].call) = {i}
                  /\ calls[reqs[i].call].outcome = "Raised"

C14_Witness ==
    /\ \E i \in DOMAIN reqs : reqs[i].resp = "fail" /\ reqs[i].method = "PUT"
    /\ pc = "aborted"

\* C15: when the lookup of a set_record call returned several records, the
\* call compares with the first of them and sends at most a PUT addressed
\* to the first one's id: no POST, no request addressed to another record,
\* and, unless somebody else edits them, the other records stay as they are.
C15_FirstMatchCanonical ==
    \A k \in DOMAIN calls :
        Len(calls[k].listed) > 1 =>
            /\ calls[k].found = {calls[k].listed[1]}
            /\ \A i \in WritesOf(k) :
                  /\ reqs[i].method = "PUT"
                  /\ reqs[i].rec_id = {calls[k].listed[1].id}
            /\ (calls[k].outcome = "NoOp") <=>
                  (calls[k].listed[1].content = calls[k].value
                   /\ calls[k].listed[1].proxied = proxy)
            /\ ~dirty =>
                  \A j \in 2..Len(calls[k].listed) :
                     \E i \in DOMAIN records : records[i] = calls[k].listed[j]

C15_Witness ==
    \E k \in DOMAIN calls :
        /\ Len(calls[k].listed) > 1
        /\ calls[k].outcome = "Updated"
        /\ calls[k].listed[2].content = calls[k].value

(***************************************************************************)
(* Requests that are never answered.  requests.get and Session.request are *)
(* called without a timeout argument, and requests then waits for the      *)
(* answer without limit.  SpecBlocking adds the peer that accepts a        *)
(* request and never answers it; Spec is the program with peers that       *)
(* always answer.                                                          *)
(***************************************************************************)
\* the timeout argument of the HTTP calls: none is passed
request_timeout == {}

\* the run is about to send an HTTP request
AboutToRequest ==
    \/ pc = "get_zone_id"
    \/ pc = "get_external_ips" /\ svc <= Len(services)
    \/ pc = "loop" /\ \E value \in pending : get_record_type(value) \in {"A", "AAAA"}
    \/ pc = "write"

request_never_answered ==
    /\ AboutToRequest
    /\ request_timeout = {}
    /\ pc' = "blocked"
    /\ UNCHANGED <<inv, config, provider, history, domain, zone_id, svc, ips, pending,
                   calls, reqs, fetched, okBodies, log, exc>>

NextBlocking == Next \/ request_never_answered

SpecBlocking == Init /\ [][NextBlocking]_vars

\* a step of the script itself
RunStep ==
    \/ main
    \/ Cloudflare_init
    \/ get_zone_id
    \/ get_external_ip
    \/ get_external_ips_return
    \/ set_record_lookup
    \/ set_record_write
    \/ finish

\* C16: no HTTP request of a run waits without limit: as long as the run
\* has not ended, the script has a step to take, whatever the echo services
\* and the provider do, so that the run ends.
C16_BoundedWaiting == RunEnded \/ ENABLED RunStep

\* C17: every rejected or failed path of a run leaves at least one error
\* entry in the log that names the offending input: the hostname without a
\* dot, the missing credentials, the domain without a zone, the echo
\* service that failed, the invalid candidate address, the provider
\* response that was not a success.
C17_NoSilentFailures ==
    /\ exc = "ValueError: not a valid hostname" => Logged("error", name)
    /\ exc = "EnvironmentError" =>
          \E l \in DOMAIN log : log[l].level = "error"
    /\ exc = "ValueError: No such domain" => Logged("error", domain)
    /\ \A i \in DOMAIN fetched :
          fetched[i] = "raised" => Logged("error", <<services[i]>>)
    /\ \A k \in DOMAIN calls :
          ~ValidAddress(calls[k].value) => Logged("error", calls[k].value)
    /\ \A i \in DOMAIN reqs :
          reqs[i].resp = "fail" => Logged("error", <<"r.text">>)

\* the requests of a run stay within (hostname, type of the candidate)
C18_FrameOfRequests ==
    /\ \A i \in AllWrites :
          /\ reqs[i].zone = {zone_id} /\ zone_id # NoZone
          /\ reqs[i].data # {}
          /\ \A d \in reqs[i].data :
                /\ d.name = name
                /\ d.content \in ips
                /\ d.proxied = proxy
    /\ \A i \in DOMAIN reqs :
          reqs[i].call > 0 =>
             LET c == calls[reqs[i].call]
                 other == IF FamilyOf(c.value) = "A" THEN "AAAA" ELSE "A"
             IN  /\ reqs[i].zone = {zone_id}
                 /\ \A q \in reqs[i].params : q.name = name /\ q.type = FamilyOf(c.value)
                 /\ \A d \in reqs[i].data : d.type # other
                 /\ \A j \in DOMAIN c.listed :
                       c.listed[j].type # other /\ c.listed[j].name = name
                 /\ \A r \in c.found : reqs[i].rec_id \subseteq {r.id}
    /\ \A i \in DOMAIN reqs, j \in DOMAIN records :
          (records[j].name # name \/ reqs[i].call = 0) => records[j].id \notin reqs[i].rec_id
    /\ \A i \in DOMAIN reqs, j \in DOMAIN records :
          (reqs[i].call > 0 /\ records[j].id \in reqs[i].rec_id) =>
             records[j].type = FamilyOf(calls[reqs[i].call].value)

\* C18: every POST and PUT of a run names the configured hostname, is sent
\* to the zone resolved at startup, has a content that is a member of the
\* set resolved in the run and the proxied flag of the command line; a
\* set_record call reads and writes only records of the type of its
\* candidate's family, no request is addressed to a record of another
\* name, and every step of the program leaves the provider's records of
\* other names as they were.
C18_Frame ==
    /\ []C18_FrameOfRequests
    /\ [][extCount' = extCount =>
             \A j \in DOMAIN records :
                 records[j].name # name =>
                     (j \in DOMAIN records' /\ records'[j] = records[j])]_vars

C18_Witness ==
    /\ pc = "done"
    /\ \E i \in AllWrites : reqs[i].method = "PUT"
    /\ \E i \in DOMAIN records : records[i].name = HostOther
    /\ \E i \in DOMAIN records : records[i].name = name /\ records[i].type = "AAAA"
    /\ \E k \in DOMAIN calls : FamilyOf(calls[k].value) = "A" /\ calls[k].outcome = "Created"

\* the address is the only valid address of its family in the set
OnlyOfItsFamily(a, S) ==
    /\ a \in S /\ ValidAddress(a)
    /\ \A b \in S : (ValidAddress(b) /\ FamilyOf(b) = FamilyOf(a)) => b = a

\* the first record the provider lists for (hostname, type) has the content
\* and the proxied flag
FirstRecordIs(n, t, content, proxied) ==
    \E i \in DOMAIN records :
        /\ records[i].name = n /\ records[i].type = t
        /\ \A j \in 1..(i - 1) : ~(records[j].name = n /\ records[j].type = t)
        /\ records[i].content = content /\ records[i].proxied = proxied

\* C19: when a run has completed without error and nobody else changed the
\* provider, every address that is the only valid address of its family in
\* the resolved set is the content of the first record the provider lists
\* for (hostname, type of the address), and that record has the requested
\* proxied flag.
C19_Convergence ==
    (pc = "done" /\ ~dirty) =>
        \A a \in ips :
            OnlyOfItsFamily(a, ips) => FirstRecordIs(name, FamilyOf(a), a, proxy)

C19_Witness ==
    /\ pc = "done" /\ ~dirty
    /\ \E a \in ips :
          /\ OnlyOfItsFamily(a, ips)
          /\ \E k \in DOMAIN calls : calls[k].value = a /\ calls[k].outcome = "Updated"
          /\ \E i, j \in DOMAIN records :
                /\ i < j
                /\ records[i].name = name /\ records[i].type = FamilyOf(a)
                /\ records[j].name = name /\ records[j].type = FamilyOf(a)
                /\ records[j].content # a
    /\ \E b \in ips : ~ValidAddress(b)

(***************************************************************************)
(* Two invocations of the script for the same hostname at the same time.   *)
(* Both have resolved the zone and the same address; each runs its own     *)
(* set_record call, and the provider answers their requests one at a time  *)
(* in any order.                                                           *)
(***************************************************************************)
InitOverlap ==
    /\ name = HostHome
    /\ env = [email |-> [set |-> TRUE, value |-> <<"v">>],
              token |-> [set |-> TRUE, value |-> <<"v">>]]
    /\ proxy \in BOOLEAN
    /\ services = DefaultServices
    /\ \E a \in {V4a, V4b, V6a} :
         /\ ips = {a}
         /\ records \in {rs \in InitialRecords :
                           \A i \in DOMAIN rs :
                               ~(rs[i].name = name /\ rs[i].type = get_record_type(a))}
    /\ pc = "loop"
    /\ domain = DomainOf(name)
    /\ zone_id = ProviderZones[1].id
    /\ svc = Len(services) + 1
    /\ pending = {}
    /\ calls = <<>>
    /\ reqs = <<>>
    /\ fetched = <<>>
    /\ okBodies = {}
    /\ log = <<>>
    /\ exc = NoExc
    /\ runNo = 1
    /\ prev = NoPrev
    /\ dirty = FALSE
    /\ extCount = 0
    /\ inv = [p \in Invocations |-> Invocation("loop", <<>>, <<>>)]

single_run == <<config, history, pc, domain, zone_id, svc, ips, pending, calls,
                reqs, fetched, okBodies, log, exc>>

\* set_record of invocation p up to the comparison: the lookup
overlap_lookup(p) ==
    /\ inv[p].pc = "loop"
    /\ \E value \in ips :
         LET rt == get_record_type(value)
             q  == get_existing_rec_params(name, rt)
         IN  \E r \in ListResponses(RecordsNamed(q.name, q.type)) :
               LET rq == <<Req(1, "GET", {zone_id}, {}, {q}, {}, r.kind)>>
               IN  IF call_api_raises(r)
                   THEN inv' = [inv EXCEPT ![p] = Invocation("aborted",
                                   <<Call(value, rt, FALSE, <<>>, {}, "Raised")>>, rq)]
                   ELSE LET found == get_existing_rec(r)
                        IN  IF \E rec \in found : RecUnchanged(rec, value, proxy)
                            THEN inv' = [inv EXCEPT ![p] = Invocation("done",
                                   <<Call(value, rt, TRUE, r.result, found, "NoOp")>>, rq)]
                            ELSE inv' = [inv EXCEPT ![p] = Invocation("write",
                                   <<Call(value, rt, TRUE, r.result, found, "pending")>>, rq)]
    /\ UNCHANGED <<single_run, provider>>

\* set_record of invocation p after the comparison: the PUT or the POST
overlap_write(p) ==
    /\ inv[p].pc = "write"
    /\ LET c      == inv[p].calls[1]
           method == WriteMethod(c.found)
           data   == WriteData(name, c.rt, c.value, proxy, c.found)
           path   == WritePathId(c.found)
       IN  \E ok \in WriteResponses :
             LET r  == [ok |-> ok]
                 rq == Append(inv[p].reqs,
                              Req(1, method, {zone_id}, path, {}, {data},
                                  IF ok THEN "ok" ELSE "fail"))
             IN  IF call_api_raises(r)
                 THEN /\ inv' = [inv EXCEPT ![p] = Invocation("aborted",
                                     <<[c EXCEPT !.outcome = "Raised"]>>, rq)]
                      /\ records' = records
                 ELSE /\ inv' = [inv EXCEPT ![p] = Invocation("done",
                                     <<[c EXCEPT !.outcome =
                                          IF method = "PUT" THEN "Updated" ELSE "Created"]>>,
                                     rq)]
                      /\ records' = IF method = "PUT"
                                    THEN Updated(CHOOSE i \in path : TRUE, data)
                                    ELSE Created(data)
    /\ UNCHANGED single_run

NextOverlap == \E p \in Invocations : overlap_lookup(p) \/ overlap_write(p)

SpecOverlap == InitOverlap /\ [][NextOverlap]_vars

\* the create calls invocation p has sent
CreatesBy(p) == {i \in DOMAIN inv[p].reqs : inv[p].reqs[i].method = "POST"}

CreatesInTotal == Cardinality({<<p, i>> \in Invocations \X (1..2) : i \in CreatesBy(p)})

\* the provider's records for the hostname and the type of the address
RecordsFor(a) == {i \in DOMAIN records : records[i].name = name /\ records[i].type = FamilyOf(a)}

\* C20 as stated: however the steps of the two invocations interleave, at
\* most one create is sent in total and the provider never has two records
\* for (hostname, type of the address).
C20_AtMostOneCreate ==
    /\ CreatesInTotal <= 1
    /\ \A a \in ips : Cardinality(RecordsFor(a)) <= 1

\* C20 amended: each invocation sends at most one create, and only after
\* its own lookup returned no record; so at most two creates are sent in
\* total and the provider has at most two records for (hostname, type), and
\* as soon as one invocation's lookup has returned a record at most one
\* create is sent in total.
C20_OneCreatePerInvocation ==
    /\ \A p \in Invocations :
          /\ Cardinality(CreatesBy(p)) <= 1
          /\ CreatesBy(p) # {} =>
                (inv[p].calls # <<>> /\ inv[p].calls[1].looked /\ inv[p].calls[1].listed = <<>>)
    /\ CreatesInTotal <= 2
    /\ \A a \in ips : Cardinality(RecordsFor(a)) <= CreatesInTotal
    /\ (\E p \in Invocations : inv[p].calls # <<>> /\ inv[p].calls[1].listed # <<>>)
          => CreatesInTotal <= 1

C20_Witness ==
    \E p, q \in Invocations :
        /\ p # q
        /\ inv[p].pc = "done" /\ inv[p].calls[1].outcome = "Created"
        /\ inv[q].pc = "done" /\ inv[q].calls[1].outcome = "NoOp"
        /\ inv[q].calls[1].listed # <<>>

====
